---- MODULE Spec2Model ----
(***************************************************************************)
(* A model of ppt_translator: the natural-order key, the detection         *)
(* response parser, the per-page annotator, the batch pipeline, the        *)
(* document assembler and the two front-ends.                              *)
(*                                                                         *)
(* Text is modelled as a sequence of one-character strings, so that the    *)
(* string operations of the program (split, replace, join, compare) are    *)
(* computed character by character as the code computes them.              *)
(***************************************************************************)
EXTENDS Integers, Sequences, FiniteSets, TLC

(***************************************************************************)
(* Bounds of the model.                                                    *)
(***************************************************************************)
\* Largest number of page images handed to one batch / one assembly.
MaxPages == 2

\* Largest number of records of a serialized list of valid records.
MaxRecords == 2

\* Largest number of file names handed to one sort.
MaxNames == 3

(***************************************************************************)
(* Characters.  Ord gives the code point Python compares strings by.       *)
(***************************************************************************)
\* The grave accent (code point 96), three of which make a code fence.
BackTick == "GRAVE"

Ord(c) ==
    CASE c = "\n" -> 10 [] c = " " -> 32 [] c = "\"" -> 34 [] c = "," -> 44
      [] c = "." -> 46 [] c = "/" -> 47
      [] c = "0" -> 48 [] c = "1" -> 49 [] c = "2" -> 50 [] c = "3" -> 51
      [] c = "4" -> 52 [] c = "5" -> 53 [] c = "6" -> 54 [] c = "7" -> 55
      [] c = "8" -> 56 [] c = "9" -> 57
      [] c = ":" -> 58 [] c = "=" -> 61
      [] c = "A" -> 65 [] c = "P" -> 80
      [] c = "[" -> 91 [] c = "]" -> 93 [] c = "_" -> 95 [] c = BackTick -> 96
      [] c = "a" -> 97 [] c = "b" -> 98 [] c = "c" -> 99 [] c = "d" -> 100
      [] c = "e" -> 101 [] c = "f" -> 102 [] c = "g" -> 103 [] c = "i" -> 105
      [] c = "j" -> 106 [] c = "l" -> 108 [] c = "m" -> 109 [] c = "n" -> 110
      [] c = "o" -> 111 [] c = "p" -> 112 [] c = "r" -> 114 [] c = "s" -> 115
      [] c = "t" -> 116 [] c = "u" -> 117 [] c = "x" -> 120
      [] c = "{" -> 123 [] c = "}" -> 125

Digits == {"0", "1", "2", "3", "4", "5", "6", "7", "8", "9"}

IsDigit(c) == c \in Digits

DigitVal(c) == Ord(c) - 48

\* str.lower() on one character
LowerChar(c) == CASE c = "A" -> "a" [] c = "P" -> "p" [] OTHER -> c

Lower(s) == [i \in 1..Len(s) |-> LowerChar(s[i])]

\* int(text) of a run of decimal digits
RECURSIVE IntOf(_)
IntOf(ds) ==
    IF ds = <<>> THEN 0
    ELSE 10 * IntOf(SubSeq(ds, 1, Len(ds) - 1)) + DigitVal(ds[Len(ds)])

\* str(n) for n >= 0
RECURSIVE StrOf(_)
StrOf(n) ==
    LET d == <<"0", "1", "2", "3", "4", "5", "6", "7", "8", "9">>[(n % 10) + 1]
    IN IF n < 10 THEN <<d>> ELSE StrOf(n \div 10) \o <<d>>

\* the least element of a non-empty set of integers
MinOf(S) == CHOOSE x \in S : \A y \in S : x <= y

\* the k-th smallest element of a set of integers
NthOf(S, k) == CHOOSE x \in S : Cardinality({y \in S : y <= x}) = k

\* Python's comparison of two str values: "lt", "eq" or "gt"
StrCmp(a, b) ==
    LET m == IF Len(a) < Len(b) THEN Len(a) ELSE Len(b)
        diff == {i \in 1..m : a[i] # b[i]}
    IN IF diff = {}
       THEN (IF Len(a) = Len(b) THEN "eq" ELSE IF Len(a) < Len(b) THEN "lt" ELSE "gt")
       ELSE LET i == MinOf(diff) IN IF Ord(a[i]) < Ord(b[i]) THEN "lt" ELSE "gt"

\* s.startswith(p, i): p occurs in s at index i (1-based)
StartsAt(s, p, i) ==
    /\ i >= 1
    /\ i + Len(p) - 1 <= Len(s)
    /\ \A k \in 1..Len(p) : s[i + k - 1] = p[k]

EndsWith(s, p) == Len(p) <= Len(s) /\ StartsAt(s, p, Len(s) - Len(p) + 1)

\* s.find(p, i): the first index >= i where p occurs, 0 if none
Find(s, p, i) ==
    LET hits == {k \in i..(Len(s) - Len(p) + 1) : StartsAt(s, p, k)}
    IN IF hits = {} THEN 0 ELSE MinOf(hits)

\* s.split(c) for a one-character separator c
SplitOn(s, c) ==
    LET at == {i \in 1..Len(s) : s[i] = c}
        n == Cardinality(at)
        from(j) == IF j = 1 THEN 1 ELSE NthOf(at, j - 1) + 1
        upto(j) == IF j = n + 1 THEN Len(s) ELSE NthOf(at, j) - 1
    IN [j \in 1..(n + 1) |-> SubSeq(s, from(j), upto(j))]

(***************************************************************************)
(* pdf_generator.natural_sort_key                                          *)
(***************************************************************************)
\* re.split(r'(\d+)', s): the text runs and the digit runs of s, alternating
\* and starting and ending with a (possibly empty) text run.
\* the maximal runs of digits and of other characters of s, in order
Runs(s) ==
    LET starts == {i \in 1..Len(s) : i = 1 \/ IsDigit(s[i]) # IsDigit(s[i - 1])}
        n == Cardinality(starts)
        upto(j) == IF j = n THEN Len(s) ELSE NthOf(starts, j + 1) - 1
    IN [j \in 1..n |-> SubSeq(s, NthOf(starts, j), upto(j))]

ReSplit(s) ==
    LET runs == Runs(s)
        lead == IF s = <<>> \/ IsDigit(s[1]) THEN <<(<<>>)>> ELSE <<>>
        trail == IF s # <<>> /\ IsDigit(s[Len(s)]) THEN <<(<<>>)>> ELSE <<>>
    IN lead \o runs \o trail

\* text.isdigit()
IsDigitRun(t) == t # <<>> /\ \A i \in 1..Len(t) : IsDigit(t[i])

\* a key element that keeps a digit run as text
KeyElemText(t) == [isint |-> FALSE, n |-> 0, s |-> Lower(t)]

KeyElem(t) ==
    IF IsDigitRun(t) THEN [isint |-> TRUE, n |-> IntOf(t), s |-> <<>>]
    ELSE [isint |-> FALSE, n |-> 0, s |-> Lower(t)]

natural_sort_key(s) ==
    LET parts == ReSplit(s) IN [i \in 1..Len(parts) |-> KeyElem(parts[i])]

\* Python's list comparison of two keys: "lt", "eq", "gt", or "err" when an
\* int meets a str (TypeError).
KeyCmp(a, b) ==
    LET m == IF Len(a) < Len(b) THEN Len(a) ELSE Len(b)
        diff == {i \in 1..m : a[i] # b[i]}
    IN IF diff = {}
       THEN (IF Len(a) = Len(b) THEN "eq" ELSE IF Len(a) < Len(b) THEN "lt" ELSE "gt")
       ELSE LET i == MinOf(diff)
            IN IF a[i].isint # b[i].isint THEN "err"
               ELSE IF a[i].isint THEN (IF a[i].n < b[i].n THEN "lt" ELSE "gt")
               ELSE StrCmp(a[i].s, b[i].s)

KeyLess(x, y) == KeyCmp(natural_sort_key(x), natural_sort_key(y)) = "lt"

\* sorted(paths, key=natural_sort_key): a stable sort that uses only "<"
RECURSIVE InsertSorted(_, _)
InsertSorted(sorted, x) ==
    IF sorted = <<>> THEN <<x>>
    ELSE LET last == sorted[Len(sorted)]
         IN IF KeyLess(x, last)
            THEN Append(InsertSorted(SubSeq(sorted, 1, Len(sorted) - 1), x), last)
            ELSE Append(sorted, x)

\* the list in the order given
Unsorted(paths) == paths

RECURSIVE SortedByKey(_)
SortedByKey(paths) ==
    IF paths = <<>> THEN <<>>
    ELSE InsertSorted(SortedByKey(SubSeq(paths, 1, Len(paths) - 1)), paths[Len(paths)])

(***************************************************************************)
(* Values of parsed JSON / Python literals.  Every value is a record with  *)
(* a type tag t and a payload v: an int, a str (sequence of characters), a *)
(* list (sequence of values) or a dict (sequence of <<key, value>> pairs   *)
(* in insertion order, keys unique).                                       *)
(***************************************************************************)
VInt(n) == [t |-> "int", v |-> n]

VStr(s) == [t |-> "str", v |-> s]

VList(xs) == [t |-> "list", v |-> xs]

VDict(kvs) == [t |-> "dict", v |-> kvs]

NoVal == [t |-> "none", v |-> 0]

\* "key in d" for a dict payload
DictHas(kvs, k) == \E i \in 1..Len(kvs) : kvs[i][1] = k

\* d[key]
DictGet(kvs, k) == kvs[CHOOSE i \in 1..Len(kvs) : kvs[i][1] = k][2]

\* d[key] = val: a repeated key keeps its place and takes the last value
DictPut(kvs, k, val) ==
    IF DictHas(kvs, k)
    THEN [i \in 1..Len(kvs) |-> IF kvs[i][1] = k THEN <<k, val>> ELSE kvs[i]]
    ELSE Append(kvs, <<k, val>>)

K_bbox_2d == <<"b", "b", "o", "x", "_", "2", "d">>

K_text_content == <<"t", "e", "x", "t", "_", "c", "o", "n", "t", "e", "n", "t">>

Quote == <<"\"">>

\* ", ".join(parts)
RECURSIVE JoinWith(_, _)
JoinWith(parts, sep) ==
    IF parts = <<>> THEN <<>>
    ELSE IF Len(parts) = 1 THEN parts[1]
    ELSE parts[1] \o sep \o JoinWith(Tail(parts), sep)

(***************************************************************************)
(* json.dumps with the default separators, as a detection service that     *)
(* answers in well-formed JSON writes its records.  The texts of the model *)
(* hold neither a double quote nor a backslash, so no escape is written.   *)
(***************************************************************************)
RECURSIVE JsonDumps(_)
JsonDumps(val) ==
    CASE val.t = "int" -> StrOf(val.v)
      [] val.t = "str" -> Quote \o val.v \o Quote
      [] val.t = "list" ->
            <<"[">> \o JoinWith([i \in 1..Len(val.v) |-> JsonDumps(val.v[i])], <<",", " ">>)
                    \o <<"]">>
      [] val.t = "dict" ->
            <<"{">> \o JoinWith([i \in 1..Len(val.v) |->
                                    Quote \o val.v[i][1] \o Quote \o <<":", " ">>
                                          \o JsonDumps(val.v[i][2])], <<",", " ">>)
                    \o <<"}">>

(***************************************************************************)
(* json.loads and ast.literal_eval over the characters of the model:       *)
(* lists, dicts with string keys, double-quoted strings and non-negative   *)
(* integers, separated by spaces and newlines.  py = TRUE reads the text   *)
(* as a Python literal, which also allows a comma before a closing         *)
(* bracket.  A parse returns [ok, val, pos]: whether it succeeded, the     *)
(* value, and the index after it.                                          *)
(***************************************************************************)
ParseFail == [ok |-> FALSE, val |-> NoVal, pos |-> 0]

ParseOk(val, p) == [ok |-> TRUE, val |-> val, pos |-> p]

IsWs(c) == c \in {" ", "\n"}

\* the first index from i on that holds no whitespace (Len(s) + 1 if none)
SkipWs(s, i) == MinOf({k \in i..(Len(s) + 1) : k > Len(s) \/ ~IsWs(s[k])})

\* the first index from i on that holds no digit (Len(s) + 1 if none)
DigitsEnd(s, i) == MinOf({k \in i..(Len(s) + 1) : k > Len(s) \/ ~IsDigit(s[k])})

\* a string token opening at s[i]; a raw newline inside it is an error
ParseStringTok(s, i) ==
    LET j == Find(s, Quote, i + 1)
    IN IF j = 0 \/ \E k \in (i + 1)..(j - 1) : s[k] = "\n" THEN ParseFail
       ELSE ParseOk(VStr(SubSeq(s, i + 1, j - 1)), j + 1)

\* a number token starting at the digit s[i]; no digit may follow a leading 0
\* (a Python literal may be a run of zeros)
ParseNumberTok(s, i, py) ==
    LET j == DigitsEnd(s, i)
        zeros == \A k \in i..(j - 1) : s[k] = "0"
    IN IF s[i] = "0" /\ j > i + 1 /\ ~(py /\ zeros) THEN ParseFail
       ELSE ParseOk(VInt(IntOf(SubSeq(s, i, j - 1))), j)

RECURSIVE ParseValue(_, _, _)
RECURSIVE ParseItems(_, _, _, _)
RECURSIVE ParseMembers(_, _, _, _)
ParseValue(s, i0, py) ==
    LET i == SkipWs(s, i0)
    IN IF i > Len(s) THEN ParseFail
       ELSE IF s[i] = "["
            THEN LET j == SkipWs(s, i + 1)
                 IN IF j <= Len(s) /\ s[j] = "]" THEN ParseOk(VList(<<>>), j + 1)
                    ELSE ParseItems(s, i + 1, py, <<>>)
       ELSE IF s[i] = "{"
            THEN LET j == SkipWs(s, i + 1)
                 IN IF j <= Len(s) /\ s[j] = "}" THEN ParseOk(VDict(<<>>), j + 1)
                    ELSE ParseMembers(s, i + 1, py, <<>>)
       ELSE IF s[i] = "\"" THEN ParseStringTok(s, i)
       ELSE IF IsDigit(s[i]) THEN ParseNumberTok(s, i, py)
       ELSE ParseFail

\* the items of a list from index i on, acc holding those already read
ParseItems(s, i, py, acc) ==
    LET r == ParseValue(s, i, py)
    IN IF ~r.ok THEN ParseFail
       ELSE LET j == SkipWs(s, r.pos)
                acc2 == Append(acc, r.val)
            IN IF j > Len(s) THEN ParseFail
               ELSE IF s[j] = "]" THEN ParseOk(VList(acc2), j + 1)
               ELSE IF s[j] = ","
                    THEN LET k == SkipWs(s, j + 1)
                         IN IF py /\ k <= Len(s) /\ s[k] = "]"
                            THEN ParseOk(VList(acc2), k + 1)
                            ELSE ParseItems(s, j + 1, py, acc2)
               ELSE ParseFail

\* the members of a dict from index i on, acc holding those already read
ParseMembers(s, i0, py, acc) ==
    LET i == SkipWs(s, i0)
    IN IF i > Len(s) \/ s[i] # "\"" THEN ParseFail
       ELSE LET key == ParseStringTok(s, i)
            IN IF ~key.ok THEN ParseFail
               ELSE LET c == SkipWs(s, key.pos)
                    IN IF c > Len(s) \/ s[c] # ":" THEN ParseFail
                       ELSE LET r == ParseValue(s, c + 1, py)
                            IN IF ~r.ok THEN ParseFail
                               ELSE LET j == SkipWs(s, r.pos)
                                        acc2 == DictPut(acc, key.val.v, r.val)
                                    IN IF j > Len(s) THEN ParseFail
                                       ELSE IF s[j] = "}" THEN ParseOk(VDict(acc2), j + 1)
                                       ELSE IF s[j] = ","
                                            THEN LET k == SkipWs(s, j + 1)
                                                 IN IF py /\ k <= Len(s) /\ s[k] = "}"
                                                    THEN ParseOk(VDict(acc2), k + 1)
                                                    ELSE ParseMembers(s, j + 1, py, acc2)
                                       ELSE ParseFail

\* the whole text is one value, with nothing but whitespace after it
ParseWhole(s, py) ==
    LET r == ParseValue(s, 1, py)
    IN IF r.ok /\ SkipWs(s, r.pos) > Len(s) THEN r ELSE ParseFail

\* json.loads(s): ok = FALSE stands for json.JSONDecodeError
json_loads(s) == ParseWhole(s, FALSE)

\* ast.literal_eval(s): ok = FALSE stands for the SyntaxError / ValueError
literal_eval(s) == ParseWhole(s, TRUE)

(***************************************************************************)
(* qwen_utils.parse_json: strip a markdown code fence                      *)
(***************************************************************************)
Fence == <<BackTick, BackTick, BackTick>>

FenceJson == Fence \o <<"j", "s", "o", "n">>

\* str.splitlines(): the lines of s, without their line breaks; a final line
\* break opens no further line
splitlines(s) ==
    LET Lines(parts) ==
            IF parts[Len(parts)] = <<>> THEN SubSeq(parts, 1, Len(parts) - 1) ELSE parts
    IN Lines(SplitOn(s, "\n"))

\* s.split(sep)[0]: what precedes the first occurrence of sep
SplitFirst(s, sep) ==
    LET k == Find(s, sep, 1) IN IF k = 0 THEN s ELSE SubSeq(s, 1, k - 1)

\* the index of the first line that is exactly the fence opener, 0 if none
FirstFenceLine(lines) ==
    LET hits == {i \in 1..Len(lines) : lines[i] = FenceJson}
    IN IF hits = {} THEN 0 ELSE MinOf(hits)

parse_json(json_output) ==
    LET After(lines, i) ==
            IF i = 0 THEN json_output
            ELSE SplitFirst(JoinWith(SubSeq(lines, i + 1, Len(lines)), <<"\n">>), Fence)
        Scan(lines) == After(lines, FirstFenceLine(lines))
    IN Scan(splitlines(json_output))

(***************************************************************************)
(* The parsing steps of qwen_utils.plot_text_bounding_boxes                *)
(***************************************************************************)
\* json_data.replace(':=', ':'): occurrences of ":=" cannot overlap, so the
\* replacement drops exactly each "=" that directly follows a ":"
RECURSIVE DropFixed(_, _, _)
DropFixed(s, a, b) ==
    \* the characters of s[a..b] that the replacement keeps
    IF a > b THEN <<>>
    ELSE IF a = b
         THEN (IF a > 1 /\ s[a] = "=" /\ s[a - 1] = ":" THEN <<>> ELSE <<s[a]>>)
    ELSE DropFixed(s, a, (a + b) \div 2) \o DropFixed(s, ((a + b) \div 2) + 1, b)

FixColonEquals(s) == DropFixed(s, 1, Len(s))

\* One match of the pattern
\*   "bbox_2d":\s*\[(.*?)\],\s*"text_content":\s*"(.*?)"
\* starting exactly at index p: [ok, g1, g2, end].  "." matches no newline and
\* both groups are lazy: the shortest g1 after which the rest matches, and g2
\* up to the next double quote.
RxHead == Quote \o K_bbox_2d \o Quote \o <<":">>

RxMid == Quote \o K_text_content \o Quote \o <<":">>

NoNewline(s, a, b) == \A k \in a..b : s[k] # "\n"

\* the rest of the pattern, from "]," on, tried at index k
RxRest(s, k) ==
    LET none == [ok |-> FALSE, g2 |-> <<>>, end |-> 0]
        \* "(.*?)" with the opening quote at j2 and the next quote at q
        Group2(j2, q) ==
            IF q = 0 \/ ~NoNewline(s, j2 + 1, q - 1) THEN none
            ELSE [ok |-> TRUE, g2 |-> SubSeq(s, j2 + 1, q - 1), end |-> q + 1]
        \* :\s*" with the quote expected at j2
        OpenQuote(j2) ==
            IF j2 > Len(s) \/ s[j2] # "\"" THEN none
            ELSE Group2(j2, Find(s, Quote, j2 + 1))
        \* "text_content": expected at j
        Key(j) ==
            IF ~StartsAt(s, RxMid, j) THEN none ELSE OpenQuote(SkipWs(s, j + Len(RxMid)))
    IN IF ~StartsAt(s, <<"]", ",">>, k) THEN none ELSE Key(SkipWs(s, k + 2))

RxMatchAt(s, p) ==
    LET none == [ok |-> FALSE, g1 |-> <<>>, g2 |-> <<>>, end |-> 0]
        Match(g1, r) == [ok |-> TRUE, g1 |-> g1, g2 |-> r.g2, end |-> r.end]
        \* group 1 opens after the bracket at b and closes before index k
        Close(b, k) == Match(SubSeq(s, b + 1, k - 1), RxRest(s, k))
        Shortest(b, ks) == IF ks = {} THEN none ELSE Close(b, MinOf(ks))
        Bracket(b) ==
            IF b > Len(s) \/ s[b] # "[" THEN none
            ELSE Shortest(b, {k \in (b + 1)..Len(s) :
                                 NoNewline(s, b + 1, k - 1) /\ RxRest(s, k).ok})
    IN IF ~StartsAt(s, RxHead, p) THEN none ELSE Bracket(SkipWs(s, p + Len(RxHead)))

\* re.findall(pattern, s): the matches from left to right, none overlapping
RECURSIVE FindAllFrom(_, _)
FindAllFrom(s, p) ==
    LET Then(r) == <<r>> \o FindAllFrom(s, r.end)
        First(starts) == IF starts = {} THEN <<>> ELSE Then(RxMatchAt(s, MinOf(starts)))
    IN First({m \in p..Len(s) : RxMatchAt(s, m).ok})

re_findall(s) == FindAllFrom(s, 1)

\* s.strip()
Strip(s) ==
    LET ink == {i \in 1..Len(s) : ~IsWs(s[i])}
    IN IF ink = {} THEN <<>>
       ELSE SubSeq(s, MinOf(ink), CHOOSE x \in ink : \A y \in ink : y <= x)

\* int(x) accepts digits, single underscores between them
IntStrOk(x) ==
    /\ x # <<>>
    /\ IsDigit(x[1]) /\ IsDigit(x[Len(x)])
    /\ \A i \in 1..Len(x) : IsDigit(x[i]) \/ x[i] = "_"
    /\ \A i \in 1..(Len(x) - 1) : ~(x[i] = "_" /\ x[i + 1] = "_")

IntStrVal(x) == IntOf(SelectSeq(x, IsDigit))

\* [int(x.strip()) for x in g1.split(',')]: ok = FALSE stands for ValueError
CoordsOf(g1) ==
    LET Ints(clean) ==
            IF \A i \in 1..Len(clean) : IntStrOk(clean[i])
            THEN [ok |-> TRUE,
                  coords |-> [i \in 1..Len(clean) |-> VInt(IntStrVal(clean[i]))]]
            ELSE [ok |-> FALSE, coords |-> <<>>]
        Stripped(parts) == Ints([i \in 1..Len(parts) |-> Strip(parts[i])])
    IN Stripped(SplitOn(g1, ","))

\* the records the regular-expression scan builds, lines 143-153
RegexBoxes(s) ==
    LET Boxes(ms, cs) ==
            IF \A i \in 1..Len(ms) : cs[i].ok
            THEN [ok |-> TRUE,
                  boxes |-> VList([i \in 1..Len(ms) |->
                                     VDict(<< <<K_bbox_2d, VList(cs[i].coords)>>,
                                              <<K_text_content, VStr(ms[i].g2)>> >>)])]
            ELSE [ok |-> FALSE, boxes |-> NoVal]
        Matches(ms) == Boxes(ms, [i \in 1..Len(ms) |-> CoordsOf(ms[i].g1)])
    IN Matches(re_findall(s))

\* Lines 120-164: from the raw response to parsed_boxes.
\*   via = "json":    json.loads succeeded
\*   via = "regex":   JSONDecodeError, then the regular-expression scan
\*   via = "literal": the scan raised, then ast.literal_eval succeeded
\*   via = "none":    ast.literal_eval failed too; the function returns img
ParseData(json_data) ==
    LET Try(js, rx, lit) ==
            IF js.ok THEN [via |-> "json", boxes |-> js.val]
            ELSE IF rx.ok THEN [via |-> "regex", boxes |-> rx.boxes]
            ELSE IF lit.ok THEN [via |-> "literal", boxes |-> lit.val]
            ELSE [via |-> "none", boxes |-> NoVal]
    IN Try(json_loads(json_data), RegexBoxes(json_data), literal_eval(json_data))

\* the payload after lines 122 and 136
CleanPayload(response) == FixColonEquals(parse_json(response))

ParseResponse(response) == ParseData(CleanPayload(response))

(***************************************************************************)
(* Paths (os.path) and the names the program gives its files               *)
(***************************************************************************)
S_imgs == <<"i", "m", "g", "s">>

S_outputs == <<"o", "u", "t", "p", "u", "t", "s">>

S_page == <<"_", "p", "a", "g", "e", "_">>

S_translated == <<"_", "t", "r", "a", "n", "s", "l", "a", "t", "e", "d">>

S_png == <<"p", "n", "g">>

S_dot_pdf == <<".", "p", "d", "f">>

\* os.path.join(a, b) for a relative b
PathJoin(a, b) == IF a = <<>> THEN b ELSE a \o <<"/">> \o b

LastIndexOf(s, c) ==
    LET at == {i \in 1..Len(s) : s[i] = c}
    IN IF at = {} THEN 0 ELSE CHOOSE x \in at : \A y \in at : y <= x

\* os.path.basename(p)
Basename(p) == SubSeq(p, LastIndexOf(p, "/") + 1, Len(p))

\* os.path.dirname(p)
Dirname(p) ==
    LET k == LastIndexOf(p, "/") IN IF k <= 1 THEN SubSeq(p, 1, k) ELSE SubSeq(p, 1, k - 1)

\* os.path.splitext(name) for a file name: the extension starts at the last
\* dot, unless only dots precede it
SplitExt(name) ==
    LET k == LastIndexOf(name, ".")
    IN IF k = 0 \/ \A i \in 1..k : name[i] = "."
       THEN [root |-> name, ext |-> <<>>]
       ELSE [root |-> SubSeq(name, 1, k - 1), ext |-> SubSeq(name, k, Len(name))]

\* pdf_utils.convert_pdf_to_images: the path of the image of page n
PageImagePath(output_dir, pdf_filename, n, format) ==
    PathJoin(output_dir, pdf_filename \o S_page \o StrOf(n) \o <<".">> \o format)

\* qwen_utils.main, lines 331-342 and 352-361: where the page's output goes
OutputPath(image_path, pdf_name) ==
    LET parts == SplitExt(Basename(image_path))
        file == parts.root \o S_translated \o parts.ext
    IN IF pdf_name # <<>> THEN PathJoin(PathJoin(S_outputs, pdf_name), file)
       ELSE PathJoin(Dirname(image_path), file)

\* the directory qwen_utils.main creates for its output, if any
OutputDirOfMain(pdf_name) ==
    IF pdf_name # <<>> THEN {PathJoin(S_outputs, pdf_name)} ELSE {}

\* inference_with_api, line 262: the suffixes it accepts
AcceptedSuffix(image_path) ==
    \/ EndsWith(image_path, <<".", "p", "n", "g">>)
    \/ EndsWith(image_path, <<".", "j", "p", "g">>)
    \/ EndsWith(image_path, <<".", "j", "p", "e", "g">>)
    \/ EndsWith(image_path, <<".", "w", "e", "b", "p">>)

(***************************************************************************)
(* Images and geometry                                                     *)
(***************************************************************************)
min_pixels == 401408

max_pixels == 1605632

\* floor of the square root of n >= 0
Isqrt(n) == CHOOSE r \in 0..n : r * r <= n /\ (r + 1) * (r + 1) > n

(***************************************************************************)
(* Python's float: IEEE 754 binary64, every operation rounded to nearest,  *)
(* ties to even.  A positive float is [m, e]: m its 53 significant bits,   *)
(* the most significant first and equal to 1, e the exponent of m[1], so   *)
(* its value is the sum of m[i] * 2^(e - i + 1).  Bit strings stand for    *)
(* the integers that do not fit a machine word.                            *)
(***************************************************************************)
MantBits == 53

\* the bits of the integer n, most significant first (none for 0)
RECURSIVE BitsOfNat(_)
BitsOfNat(n) == IF n = 0 THEN <<>> ELSE BitsOfNat(n \div 2) \o <<n % 2>>

RECURSIVE NatOfBits(_)
NatOfBits(bs) ==
    IF bs = <<>> THEN 0
    ELSE 2 * NatOfBits(SubSeq(bs, 1, Len(bs) - 1)) + bs[Len(bs)]

Zeros(n) == [i \in 1..n |-> 0]

MaxOf(S) == CHOOSE x \in S : \A y \in S : y <= x

\* bs + 1, one bit longer when every bit of bs is 1
BitsInc(bs) ==
    LET Z == {i \in 1..Len(bs) : bs[i] = 0}
        Up(k) == [i \in 1..Len(bs) |-> IF i < k THEN bs[i] ELSE IF i = k THEN 1 ELSE 0]
    IN IF Z = {} THEN <<1>> \o Zeros(Len(bs)) ELSE Up(MaxOf(Z))

\* x >= y for bit strings of one length
BitsGeq(x, y) ==
    LET D == {i \in 1..Len(x) : x[i] # y[i]}
    IN D = {} \/ x[MinOf(D)] = 1

\* the low bits x[i+1..] stand for less than the low bits y[i+1..]
BitsBorrow(x, y, i) ==
    LET D == {j \in (i + 1)..Len(x) : x[j] # y[j]}
    IN D # {} /\ y[MinOf(D)] = 1

\* x - y for bit strings of one length with x >= y
BitsSub(x, y) ==
    [i \in 1..Len(x) |->
        (x[i] - y[i] - (IF BitsBorrow(x, y, i) THEN 1 ELSE 0) + 2) % 2]

\* The float nearest to the value whose leading bits are bits (bits[1] = 1, of
\* exponent e) and of which something more follows them exactly when sticky.
RoundToFloat(bits, e, sticky) ==
    LET Padded(b) ==
            LET keep == SubSeq(b, 1, MantBits)
                up == /\ b[MantBits + 1] = 1
                      /\ \/ sticky
                         \/ \E i \in (MantBits + 2)..Len(b) : b[i] = 1
                         \/ b[MantBits] = 1
                Carried(inc) ==
                    IF Len(inc) > MantBits
                    THEN [m |-> SubSeq(inc, 1, MantBits), e |-> e + 1]
                    ELSE [m |-> inc, e |-> e]
            IN IF up THEN Carried(BitsInc(keep)) ELSE [m |-> keep, e |-> e]
    IN Padded(IF Len(bits) > MantBits THEN bits
              ELSE bits \o Zeros(MantBits + 1 - Len(bits)))

\* the k bits of the integer v < 2^k, most significant first
BitsFixed(v, k) == [i \in 1..k |-> (v \div 2^(k - i)) % 2]

\* Long division, ChunkBits bits at a time (b < 2^(31 - ChunkBits)): the next
\* n bits of r / b after the binary point, for r < b and n a multiple of
\* ChunkBits
ChunkBits == 6

RECURSIVE FracBits(_, _, _)
FracBits(r, b, n) ==
    IF n = 0 THEN <<>>
    ELSE BitsFixed((r * 2^ChunkBits) \div b, ChunkBits)
            \o FracBits((r * 2^ChunkBits) % b, b, n - ChunkBits)

\* and what is left of r after them
RECURSIVE FracRem(_, _, _)
FracRem(r, b, n) ==
    IF n = 0 THEN r ELSE FracRem((r * 2^ChunkBits) % b, b, n - ChunkBits)

\* the number of binary places by which r / b < 1 lies below 1/2 .. 1
RECURSIVE LeadingZeros(_, _)
LeadingZeros(r, b) == IF 2 * r >= b THEN 0 ELSE 1 + LeadingZeros(2 * r, b)

\* the bits of a quotient that are worked out: enough for a float's and one more
QuotBits == 54

\* a / b for integers 0 < a, 0 < b: Python's true division of two ints is
\* the float nearest to the quotient
FloatDiv(a, b) ==
    LET Whole(lead, r) ==
            RoundToFloat(lead \o FracBits(r, b, QuotBits), Len(lead) - 1,
                         FracRem(r, b, QuotBits) # 0)
        Below(r, z) ==
            RoundToFloat(FracBits(r, b, QuotBits), 0 - (z + 1),
                         FracRem(r, b, QuotBits) # 0)
    IN IF a >= b THEN Whole(BitsOfNat(a \div b), a % b)
       ELSE Below(a * 2^LeadingZeros(a, b), LeadingZeros(a, b))

\* The square root, bit by bit.  s is the radicand's bits, taken in pairs;
\* st.root is the root found so far, st.rem what is left of the radicand
\* (one bit longer than the root), st.i the number of pairs taken.
SqrtStep(s, st) ==
    LET Take(r, t) ==
            IF BitsGeq(r, t)
            THEN [i |-> st.i + 1, rem |-> Tail(BitsSub(r, t)), root |-> st.root \o <<1>>]
            ELSE [i |-> st.i + 1, rem |-> Tail(r), root |-> st.root \o <<0>>]
    IN Take(st.rem \o <<s[2 * st.i + 1], s[2 * st.i + 2]>>,
            <<0>> \o st.root \o <<0, 1>>)

\* the steps of it that take st to the pair to
RECURSIVE SqrtUpTo(_, _, _)
SqrtUpTo(s, st, to) ==
    IF st.i >= to THEN st
    ELSE IF st.i + 1 = to THEN SqrtStep(s, st)
    ELSE SqrtUpTo(s, SqrtUpTo(s, st, (st.i + to) \div 2), to)

\* x ** 0.5: the float nearest to the square root of x
FloatSqrt(x) ==
    LET Rounded(r) ==
            RoundToFloat(r.root, x.e \div 2, \E i \in 1..Len(r.rem) : r.rem[i] = 1)
        Radicand(lead) == lead \o Zeros(2 * QuotBits - Len(lead))
    IN Rounded(SqrtUpTo(Radicand(IF x.e % 2 = 0 THEN <<0>> \o x.m ELSE x.m),
                        [i |-> 0, rem |-> <<0>>, root |-> <<>>], QuotBits))

Reversed(s) == [i \in 1..Len(s) |-> s[Len(s) + 1 - i]]

\* n * bs, ChunkBits bits of bs at a time (n < 2^(31 - ChunkBits)) and least
\* significant bit first: the product of n and the bits [1..hi] of bs, given
\* the carry out of the bits below them
RECURSIVE BitsMulFrom(_, _, _, _)
BitsMulFrom(bs, n, hi, carry) ==
    IF hi = 0 THEN Reversed(BitsOfNat(carry))
    ELSE LET Chunk(k, v) ==
                 Reversed(BitsFixed(v % 2^k, k)) \o BitsMulFrom(bs, n, hi - k, v \div 2^k)
             Width(k) == Chunk(k, n * NatOfBits(SubSeq(bs, hi - k + 1, hi)) + carry)
         IN Width(IF hi < ChunkBits THEN hi ELSE ChunkBits)

\* n * x for an integer n > 0 that a float holds exactly
FloatMulInt(n, x) ==
    LET Product(bits) == RoundToFloat(bits, x.e + Len(bits) - MantBits, FALSE)
    IN Product(Reversed(BitsMulFrom(x.m, n, MantBits, 0)))

\* int(x): the integer part of x
FloatTrunc(x) == IF x.e < 0 THEN 0 ELSE NatOfBits(SubSeq(x.m, 1, x.e + 1))

\* qwen_vl_utils.smart_resize: scale = (bound / current_pixels) ** 0.5 and
\* int(height * scale), int(width * scale) are computed in floats
smart_resize(height, width, lo, hi) ==
    LET Scaled(scale) == <<FloatTrunc(FloatMulInt(height, scale)),
                           FloatTrunc(FloatMulInt(width, scale))>>
        Within(current_pixels) ==
            IF lo <= current_pixels /\ current_pixels <= hi THEN <<height, width>>
            ELSE Scaled(FloatSqrt(FloatDiv(IF current_pixels < lo THEN lo ELSE hi,
                                           current_pixels)))
    IN Within(height * width)

\* The image the rasterizer writes for page n of the document: its pixels are
\* those of page n (page), nothing is drawn on it, and its size is <<w, h>>.
PageSizeOf(n) == IF n % 2 = 1 THEN <<800, 600>> ELSE <<400, 300>>

PageImage(n) == [kind |-> "image", page |-> n, size |-> PageSizeOf(n), draws |-> <<>>]

\* a translation the service returns for the text raw
Translated(raw) == <<"e", "n", ":">> \o raw

(***************************************************************************)
(* plot_text_bounding_boxes, lines 166-199: the handling of one record     *)
(***************************************************************************)
\* enumerate(parsed_boxes): ok = FALSE stands for the TypeError of a value
\* that cannot be iterated; a str yields its characters, a dict its keys
ItemsOf(boxes) ==
    CASE boxes.t = "list" -> [ok |-> TRUE, items |-> boxes.v]
      [] boxes.t = "dict" ->
            [ok |-> TRUE, items |-> [i \in 1..Len(boxes.v) |-> VStr(boxes.v[i][1])]]
      [] boxes.t = "str" ->
            [ok |-> TRUE, items |-> [i \in 1..Len(boxes.v) |-> VStr(<<boxes.v[i]>>)]]
      [] OTHER -> [ok |-> FALSE, items |-> <<>>]

\* Line 171 and lines 176-179 for one record: "skip" (the warning and
\* continue), "raise" (a TypeError, caught at line 201) or "draw".
RecordCheck(b) ==
    CASE b.t = "int" -> "raise"
      [] b.t = "str" -> IF Find(b.v, K_bbox_2d, 1) = 0 THEN "skip" ELSE "raise"
      [] b.t = "list" ->
            IF \E i \in 1..Len(b.v) : b.v[i].t = "str" /\ b.v[i].v = K_bbox_2d
            THEN "raise" ELSE "skip"
      [] b.t = "dict" ->
            IF ~DictHas(b.v, K_bbox_2d) THEN "skip"
            ELSE LET box == DictGet(b.v, K_bbox_2d)
                 IN IF box.t # "list" THEN "skip"
                    ELSE IF Len(box.v) < 4 THEN "skip"
                    ELSE IF \A i \in 1..4 : box.v[i].t = "int" THEN "draw"
                    ELSE "raise"

\* lines 176-190: the rectangle drawn for a record that passed RecordCheck
RectOf(b, size, input_width, input_height) ==
    LET box == DictGet(b.v, K_bbox_2d).v
        y1 == (box[2].v * size[2]) \div input_height
        x1 == (box[1].v * size[1]) \div input_width
        y2 == (box[4].v * size[2]) \div input_height
        x2 == (box[3].v * size[1]) \div input_width
        lox == IF x1 > x2 THEN x2 ELSE x1
        hix == IF x1 > x2 THEN x1 ELSE x2
        loy == IF y1 > y2 THEN y2 ELSE y1
        hiy == IF y1 > y2 THEN y1 ELSE y2
    IN <<lox, loy, hix, hiy>>

\* line 193: the record has a text_content that is truthy
HasText(b) ==
    /\ DictHas(b.v, K_text_content)
    /\ LET txt == DictGet(b.v, K_text_content)
       IN CASE txt.t = "int" -> txt.v # 0
            [] OTHER -> txt.v # <<>>

TextOf(b) == DictGet(b.v, K_text_content)

DrawRect(img, rect) ==
    [img EXCEPT !.draws = Append(@, [op |-> "rect", at |-> rect, text |-> <<>>])]

\* draw.text((abs_x1, abs_y2), text, ...)
DrawText(img, rect, text) ==
    [img EXCEPT !.draws = Append(@, [op |-> "text", at |-> <<rect[1], rect[4]>>,
                                     text |-> text])]

(***************************************************************************)
(* Detection records and responses of the model                            *)
(***************************************************************************)
Record(box, text) ==
    VDict(<< <<K_bbox_2d, VList([i \in 1..Len(box) |-> VInt(box[i])])>>,
             <<K_text_content, VStr(text)>> >>)

Rec_a == Record(<<10, 20, 100, 60>>, <<"a">>)

\* the corners given bottom-right first
Rec_b == Record(<<200, 160, 120, 80>>, <<"b">>)

\* a bbox_2d of 4 components that are no numbers
Rec_strs ==
    VDict(<< <<K_bbox_2d, VList(<<VStr(<<"a">>), VStr(<<"b">>), VStr(<<"c">>),
                                  VStr(<<"d">>)>>)>>,
             <<K_text_content, VStr(<<"c">>)>> >>)

\* the answers of the detection service in a run of the pipeline: no record,
\* one record, two records, and free text
Responses ==
    { JsonDumps(VList(<<>>)),
      JsonDumps(VList(<<Rec_a>>)),
      JsonDumps(VList(<<Rec_a, Rec_b>>)),
      <<"n", "o", " ", "t", "e", "x", "t">> }

(***************************************************************************)
(* The state of a run                                                      *)
(***************************************************************************)
VARIABLES
    entry,             \* the function the run was started through
    api_key,           \* MODELSCOPE_API_KEY is set (qwen_utils.py line 22)
    font_ok,           \* a TrueType font can be loaded on this machine
    args,              \* the arguments of the run
    files,             \* the files on disk: path -> content
    dirs,              \* the directories the run has created
    pc,                \* where the run is
    image_paths,       \* batch_process_images: the sorted input paths
    idx,               \* batch_process_images: the index of the page at hand
    translated_paths,  \* batch_process_images: the output paths so far
    cur,               \* main / plot_text_bounding_boxes: the page at hand
    pdf,               \* images_to_pdf: the canvas
    result,            \* how the run ended: a return value, a raise, an exit
    log                \* what the run has asked of its collaborators so far

vars == <<entry, api_key, font_ok, args, files, dirs, pc, image_paths, idx,
          translated_paths, cur, pdf, result, log>>

NoImage == [kind |-> "none", page |-> 0, size |-> <<0, 0>>, draws |-> <<>>]

\* raised: the indexes of the records whose translation request raised
NoFrame == [image_path |-> <<>>, input |-> <<0, 0>>, response |-> <<>>, via |-> "",
            items |-> <<>>, k |-> 0, img |-> NoImage, rect |-> <<0, 0, 0, 0>>,
            raised |-> {}]

NoPdf == [out |-> <<>>, paths |-> <<>>, i |-> 0, pagesize |-> <<0, 0>>, pages |-> <<>>]

NoResult == [kind |-> "none", value |-> <<>>]

\* rasterized: pages written by the rasterizer; mains: one entry per call of
\* qwen_utils.main, with the answer of the detection service (response); detect_requests / translate_requests: requests sent to the
\* detection / translation service
NoLog == [rasterized |-> 0, mains |-> <<>>, detect_requests |-> 0,
          translate_requests |-> 0]

Returned(v) == [kind |-> "return", value |-> v]

Raised(exc) == [kind |-> "raise", value |-> exc]

Exited(code) == [kind |-> "exit", value |-> code]

\* The imports of qwen_utils.py (lines 1-13 and 368-370) bind json, random, io,
\* ast, os, base64, re, sys and names of PIL, IPython, openai and the two
\* helper modules: shutil is not among them.
ShutilImported == FALSE

\* An exception leaves the function the run was started through.  main.py
\* (lines 76-80) prints it and exits with status 1; gradio_app.process_pdf
\* (lines 84-87) returns an error message and no document; a direct call
\* lets it out.
Unwind(exc) ==
    CASE entry = "cli" -> /\ pc' = "exited"
                          /\ result' = Exited(1)
      [] entry \in {"web", "cli_web"} ->
                          /\ pc' = "returned"
                          /\ result' = Returned([message |-> "error", pdf |-> <<>>,
                                                 images |-> <<>>])
      [] OTHER -> /\ pc' = "raised"
                  /\ result' = Raised(exc)

(***************************************************************************)
(* qwen_utils.batch_process_images                                         *)
(***************************************************************************)
\* lines 384-392
BatchEnter ==
    /\ pc = "batch_entry"
    /\ translated_paths' = <<>>
    /\ dirs' = dirs \cup (IF args.pdf_name # <<>>
                          THEN {PathJoin(args.output_dir, args.pdf_name)} ELSE {})
    /\ image_paths' = SortedByKey(args.paths)
    /\ idx' = 1
    /\ pc' = "batch_loop"
    /\ UNCHANGED <<entry, api_key, font_ok, args, files, cur, pdf, result, log>>

\* lines 395-396: the call of main for the next page
BatchCallMain ==
    /\ pc = "batch_loop"
    /\ idx <= Len(image_paths)
    /\ cur' = [NoFrame EXCEPT !.image_path = image_paths[idx]]
    /\ log' = [log EXCEPT !.mains = Append(@, [image_path |-> image_paths[idx],
                                               detect |-> "none", response |-> <<>>,
                                               outcome |-> "running", output |-> <<>>])]
    /\ pc' = "main_try"
    /\ UNCHANGED <<entry, api_key, font_ok, args, files, dirs, image_paths, idx,
                   translated_paths, pdf, result>>

(***************************************************************************)
(* qwen_utils.main: one page                                               *)
(***************************************************************************)
\* the entry of log.mains for the call at hand, updated
NoteMain(field, val) ==
    [log EXCEPT !.mains[Len(log.mains)] = [@ EXCEPT ![field] = val]]

\* Lines 318-324 raise: the image cannot be opened, or inference_with_api
\* raises, before any request without a key (line 258) or with a suffix it
\* does not accept (line 262), else from the request itself.
MainDetectRaises ==
    /\ pc = "main_try"
    /\ LET asked == /\ cur.image_path \in DOMAIN files
                    /\ api_key
                    /\ AcceptedSuffix(cur.image_path)
       IN log' = [NoteMain("detect", "raised")
                    EXCEPT !.detect_requests = IF asked THEN @ + 1 ELSE @]
    /\ pc' = "main_except"
    /\ UNCHANGED <<entry, api_key, font_ok, args, files, dirs, image_paths, idx,
                   translated_paths, cur, pdf, result>>

\* lines 318-329: the detection service answers, and main calls
\* plot_text_bounding_boxes with the answer
MainDetectReturns ==
    /\ pc = "main_try"
    /\ cur.image_path \in DOMAIN files
    /\ api_key
    /\ AcceptedSuffix(cur.image_path)
    /\ \E response \in args.responses :
          LET size == files[cur.image_path].size
              input == smart_resize(size[2], size[1], min_pixels, max_pixels)
          IN /\ cur' = [cur EXCEPT !.response = response,
                                   \* input_height, input_width
                                   !.input = input]
             /\ log' = [NoteMain("detect", "returned")
                          EXCEPT !.detect_requests = @ + 1,
                                 !.mains[Len(log.mains)].response = response]
    /\ pc' = "plot_entry"
    /\ UNCHANGED <<entry, api_key, font_ok, args, files, dirs, image_paths, idx,
                   translated_paths, pdf, result>>

(***************************************************************************)
(* qwen_utils.plot_text_bounding_boxes                                     *)
(***************************************************************************)
\* a response that yields no record is an error of the page
PlotParseStrict ==
    /\ pc = "plot_entry"
    /\ \E img \in {files[cur.image_path]}, parsed \in {ParseResponse(cur.response)} :
          \E its \in {ItemsOf(parsed.boxes)} :
             IF ~font_ok \/ parsed.via = "none" \/ ~its.ok \/ its.items = <<>>
             THEN /\ cur' = [cur EXCEPT !.img = img,
                                        !.via = IF font_ok THEN parsed.via ELSE ""]
                  /\ pc' = "main_except"
             ELSE /\ cur' = [cur EXCEPT !.img = img, !.via = parsed.via,
                                        !.items = its.items, !.k = 1]
                  /\ pc' = "plot_loop"
    /\ UNCHANGED <<entry, api_key, font_ok, args, files, dirs, image_paths, idx,
                   translated_paths, pdf, result, log>>

\* Lines 114-167: open the image, load a font, parse the response.  Without
\* a font the loader raises inside the try (lines 125-128, 97) and line 201
\* catches it; a response no step can read returns at line 164; a value that
\* cannot be iterated raises at line 167 and line 201 catches it.  In all
\* three cases the image is returned as it was opened.
PlotParse ==
    /\ pc = "plot_entry"
    /\ \E img \in {files[cur.image_path]}, parsed \in {ParseResponse(cur.response)} :
          \E its \in {ItemsOf(parsed.boxes)} :
             IF ~font_ok \/ parsed.via = "none" \/ ~its.ok
             THEN /\ cur' = [cur EXCEPT !.img = img,
                                        !.via = IF font_ok THEN parsed.via ELSE ""]
                  /\ pc' = "plot_return"
             ELSE /\ cur' = [cur EXCEPT !.img = img, !.via = parsed.via,
                                        !.items = its.items, !.k = 1]
                  /\ pc' = "plot_loop"
    /\ UNCHANGED <<entry, api_key, font_ok, args, files, dirs, image_paths, idx,
                   translated_paths, pdf, result, log>>

\* lines 167-193: one record, up to the call of translateWithAPI
PlotRecord ==
    /\ pc = "plot_loop"
    /\ cur.k <= Len(cur.items)
    /\ LET b == cur.items[cur.k]
           check == RecordCheck(b)
           rect == RectOf(b, cur.img.size, cur.input[2], cur.input[1])
       IN CASE check = "skip" -> /\ cur' = [cur EXCEPT !.k = @ + 1]
                                 /\ pc' = "plot_loop"
            [] check = "raise" -> /\ cur' = cur
                                  /\ pc' = "plot_return"
            [] check = "draw" ->
                  /\ cur' = [cur EXCEPT !.img = DrawRect(@, rect), !.rect = rect,
                                        !.k = IF HasText(b) THEN @ ELSE @ + 1]
                  /\ pc' = IF HasText(b) THEN "plot_translate" ELSE "plot_loop"
    /\ UNCHANGED <<entry, api_key, font_ok, args, files, dirs, image_paths, idx,
                   translated_paths, pdf, result, log>>

\* Lines 195-196 and translateWithAPI: without a key the text comes back as
\* it is (line 59) and no request is sent; with a key the service answers.
\* draw.text raises on a text that is no str, in the try and again in the
\* handler at line 199, and line 201 catches that.
TranslateReturns ==
    /\ pc = "plot_translate"
    /\ LET txt == TextOf(cur.items[cur.k])
           drawn == IF api_key THEN Translated(IF txt.t = "str" THEN txt.v ELSE <<>>)
                    ELSE txt.v
       IN IF api_key \/ txt.t = "str"
          THEN /\ cur' = [cur EXCEPT !.img = DrawText(@, cur.rect, drawn), !.k = @ + 1]
               /\ pc' = "plot_loop"
          ELSE /\ cur' = cur
               /\ pc' = "plot_return"
    /\ log' = [log EXCEPT !.translate_requests = IF api_key THEN @ + 1 ELSE @]
    /\ UNCHANGED <<entry, api_key, font_ok, args, files, dirs, image_paths, idx,
                   translated_paths, pdf, result>>

\* the request raises with no handler at lines 197-199: line 201 catches it
TranslateRaisesAborts ==
    /\ pc = "plot_translate"
    /\ api_key
    /\ cur' = [cur EXCEPT !.raised = @ \cup {cur.k}]
    /\ pc' = "plot_return"
    /\ log' = [log EXCEPT !.translate_requests = @ + 1]
    /\ UNCHANGED <<entry, api_key, font_ok, args, files, dirs, image_paths, idx,
                   translated_paths, pdf, result>>

\* lines 195-199: the request raises and the handler draws the original text
TranslateRaises ==
    /\ pc = "plot_translate"
    /\ api_key
    /\ LET txt == TextOf(cur.items[cur.k])
       IN IF txt.t = "str"
          THEN /\ cur' = [cur EXCEPT !.img = DrawText(@, cur.rect, txt.v),
                                     !.raised = @ \cup {cur.k}, !.k = @ + 1]
               /\ pc' = "plot_loop"
          ELSE /\ cur' = [cur EXCEPT !.raised = @ \cup {cur.k}]
               /\ pc' = "plot_return"
    /\ log' = [log EXCEPT !.translate_requests = @ + 1]
    /\ UNCHANGED <<entry, api_key, font_ok, args, files, dirs, image_paths, idx,
                   translated_paths, pdf, result>>

\* line 207 (and line 164): the image goes back to the caller
PlotReturn ==
    /\ IF pc = "plot_loop" THEN cur.k > Len(cur.items) ELSE pc = "plot_return"
    /\ IF entry = "plot"
       THEN /\ pc' = "returned"
            /\ result' = Returned(cur.img)
       ELSE /\ pc' = "main_save"
            /\ result' = result
    /\ UNCHANGED <<entry, api_key, font_ok, args, files, dirs, image_paths, idx,
                   translated_paths, cur, pdf, log>>

(***************************************************************************)
(* qwen_utils.main, the end of the page; batch_process_images, the return  *)
(***************************************************************************)
\* lines 331-345, save_image, and lines 396-397 of the caller
MainSave ==
    /\ pc = "main_save"
    /\ LET output_path == OutputPath(cur.image_path, args.pdf_name)
       IN /\ dirs' = dirs \cup OutputDirOfMain(args.pdf_name) \cup {Dirname(output_path)}
          /\ files' = (output_path :> cur.img) @@ files
          /\ translated_paths' = Append(translated_paths, output_path)
          /\ log' = [NoteMain("outcome", "returned")
                       EXCEPT !.mains[Len(log.mains)].output = output_path]
    /\ idx' = idx + 1
    /\ pc' = "batch_loop"
    /\ UNCHANGED <<entry, api_key, font_ok, args, image_paths, cur, pdf, result>>

\* Lines 346-366: the handler of main.  It names the output as the try does
\* and calls shutil.copy; the name shutil is not bound in the module, so the
\* call raises NameError, which leaves main and batch_process_images.
MainExcept ==
    /\ pc = "main_except"
    /\ LET output_path == OutputPath(cur.image_path, args.pdf_name)
       IN /\ dirs' = dirs \cup OutputDirOfMain(args.pdf_name)
          /\ IF ShutilImported
             THEN /\ files' = (output_path :> files[cur.image_path]) @@ files
                  /\ translated_paths' = Append(translated_paths, output_path)
                  /\ log' = [NoteMain("outcome", "returned")
                               EXCEPT !.mains[Len(log.mains)].output = output_path]
                  /\ idx' = idx + 1
                  /\ pc' = "batch_loop"
                  /\ result' = result
             ELSE /\ log' = NoteMain("outcome", "raised")
                  /\ Unwind("NameError")
                  /\ UNCHANGED <<files, translated_paths, idx>>
    /\ UNCHANGED <<entry, api_key, font_ok, args, image_paths, cur, pdf>>

\* lines 399-401, and what the caller does with the list
BatchReturn ==
    /\ pc = "batch_loop"
    /\ idx > Len(image_paths)
    /\ translated_paths' = SortedByKey(translated_paths)
    /\ IF entry = "batch"
       THEN /\ pc' = "returned"
            /\ result' = Returned(translated_paths')
       ELSE /\ pc' = "assemble"
            /\ result' = result
    /\ UNCHANGED <<entry, api_key, font_ok, args, files, dirs, image_paths, idx, cur,
                   pdf, log>>

(***************************************************************************)
(* pdf_generator.images_to_pdf                                             *)
(***************************************************************************)
\* reportlab's A4, in whole points
A4 == <<595, 842>>

\* Lines 50-65: sort the paths and create the canvas.  Without a page_size
\* (written <<>>) the size of the first image in sorted order is read, which
\* raises FileNotFoundError when that file is missing.
PdfEnter ==
    /\ pc = "pdf_entry"
    /\ \E sorted \in {SortedByKey(pdf.paths)} :
          /\ dirs' = dirs \cup {Dirname(pdf.out)}
          /\ IF args.page_size = <<>> /\ sorted # <<>> /\ sorted[1] \notin DOMAIN files
             THEN /\ Unwind("FileNotFoundError")
                  /\ pdf' = pdf
             ELSE /\ pdf' = [pdf EXCEPT
                               !.paths = sorted,
                               !.i = 1,
                               !.pagesize = IF args.page_size # <<>> THEN args.page_size
                                            ELSE IF sorted # <<>> THEN files[sorted[1]].size
                                            ELSE A4]
                  /\ pc' = "pdf_loop"
                  /\ result' = result
    /\ UNCHANGED <<entry, api_key, font_ok, args, files, image_paths, idx,
                   translated_paths, cur, log>>

\* lines 68-81: one path of the loop
PdfPage ==
    /\ pc = "pdf_loop"
    /\ pdf.i <= Len(pdf.paths)
    /\ LET img_path == pdf.paths[pdf.i]
       IN IF img_path \notin DOMAIN files
          THEN pdf' = [pdf EXCEPT !.i = @ + 1]
          ELSE LET size == IF args.page_size = <<>> THEN files[img_path].size
                           ELSE pdf.pagesize
               IN pdf' = [pdf EXCEPT !.i = @ + 1, !.pagesize = size,
                                     !.pages = Append(@, [size |-> size, path |-> img_path,
                                                          image |-> files[img_path]])]
    /\ UNCHANGED <<entry, api_key, font_ok, args, files, dirs, pc, image_paths, idx,
                   translated_paths, cur, result, log>>

\* Lines 84-86, and the end of the front-end: main.py returns (exit status
\* 0), process_pdf returns the message, the document and the page images.
PdfSave ==
    /\ pc = "pdf_loop"
    /\ pdf.i > Len(pdf.paths)
    /\ files' = (pdf.out :> [kind |-> "pdf", page |-> 0, size |-> <<0, 0>>,
                              draws |-> pdf.pages]) @@ files
    /\ CASE entry = "cli" -> /\ pc' = "exited"
                             /\ result' = Exited(0)
         [] entry \in {"web", "cli_web"} ->
                /\ pc' = "returned"
                /\ result' = Returned([message |-> "ok", pdf |-> pdf.out,
                                       images |-> pdf.paths])
         [] OTHER -> /\ pc' = "returned"
                     /\ result' = Returned(pdf.out)
    /\ UNCHANGED <<entry, api_key, font_ok, args, dirs, image_paths, idx,
                   translated_paths, cur, pdf, log>>

(***************************************************************************)
(* The front-ends: main.main and gradio_app.process_pdf                    *)
(***************************************************************************)
\* main.py lines 19-50: check_environment, then the web interface (--web)
\* or the command line mode
CliStart ==
    /\ pc = "cli_start"
    /\ IF ~api_key
       THEN /\ pc' = "exited"
            /\ result' = Exited(1)
            /\ dirs' = dirs
       ELSE IF entry = "cli_web"
       THEN /\ pc' = "web_start"
            /\ result' = result
            /\ dirs' = dirs
       ELSE /\ pc' = "convert"
            /\ result' = result
            /\ dirs' = dirs \cup {args.output_dir, PathJoin(args.output_dir, args.pdf_name)}
    /\ UNCHANGED <<entry, api_key, font_ok, args, files, image_paths, idx,
                   translated_paths, cur, pdf, log>>

\* gradio_app.py lines 35-55: process_pdf receives the upload; the module
\* only prints a warning when the key is missing (lines 20-22)
WebStart ==
    /\ pc = "web_start"
    /\ pc' = "convert"
    /\ UNCHANGED <<entry, api_key, font_ok, args, files, dirs, image_paths, idx,
                   translated_paths, cur, pdf, result, log>>

\* pdf_utils.convert_pdf_to_images(pdf_path, img_dir), and the call of
\* batch_process_images with the paths it returns
Convert ==
    /\ pc = "convert"
    /\ LET img_dir == PathJoin(S_imgs, args.pdf_name)
           path(n) == PageImagePath(img_dir, args.pdf_name, n, S_png)
           made == {path(n) : n \in 1..args.n_pages}
       IN /\ dirs' = dirs \cup {img_dir}
          /\ files' = [q \in made |-> PageImage(CHOOSE n \in 1..args.n_pages : path(n) = q)]
                        @@ files
          /\ args' = [args EXCEPT !.paths = [n \in 1..args.n_pages |-> path(n)]]
    /\ log' = [log EXCEPT !.rasterized = @ + args.n_pages]
    /\ pc' = "batch_entry"
    /\ UNCHANGED <<entry, api_key, font_ok, image_paths, idx, translated_paths, cur,
                   pdf, result>>

\* main.py lines 63-68, gradio_app.py lines 70-76: name the document, sort
\* the paths again and call images_to_pdf
Assemble ==
    /\ pc = "assemble"
    /\ LET output_subdir == PathJoin(args.output_dir, args.pdf_name)
           output_pdf_path == PathJoin(output_subdir,
                                       args.pdf_name \o S_translated \o S_dot_pdf)
       IN pdf' = [NoPdf EXCEPT !.out = output_pdf_path,
                               !.paths = SortedByKey(translated_paths)]
    /\ pc' = "pdf_entry"
    /\ UNCHANGED <<entry, api_key, font_ok, args, files, dirs, image_paths, idx,
                   translated_paths, cur, result, log>>

(***************************************************************************)
(* Spec: a run through a front-end                                         *)
(***************************************************************************)
PdfNames == {<<"d">>, <<"P", "2">>}

\* The arguments of a run, and what its surroundings hold: responses are the
\* answers the detection service may give, names / records / payload are the
\* inputs of a call of natural_sort_key's sort or of the response parser,
\* height .. max_pixels the arguments of a call of smart_resize.
NoArgs == [pdf_name |-> <<>>, n_pages |-> 0, output_dir |-> S_outputs, paths |-> <<>>,
           page_size |-> <<>>, responses |-> {}, names |-> <<>>, records |-> NoVal,
           payload |-> <<>>, height |-> 0, width |-> 0, min_pixels |-> 0,
           max_pixels |-> 0]

\* nothing has run yet
Quiet ==
    /\ dirs = {}
    /\ image_paths = <<>>
    /\ idx = 0
    /\ translated_paths = <<>>
    /\ result = NoResult
    /\ log = NoLog

Idle ==
    /\ files = <<>>
    /\ cur = NoFrame
    /\ pdf = NoPdf
    /\ Quiet

Init ==
    /\ entry \in {"cli", "cli_web", "web"}
    /\ api_key \in BOOLEAN
    /\ font_ok = TRUE
    /\ \E name \in PdfNames, n \in 1..MaxPages, out \in {S_outputs, <<"o", "u", "t">>} :
          /\ entry # "cli" => out = S_outputs
          /\ args = [NoArgs EXCEPT !.pdf_name = name, !.n_pages = n, !.output_dir = out,
                                   !.responses = Responses]
    /\ pc = IF entry = "web" THEN "web_start" ELSE "cli_start"
    /\ Idle

PageSteps ==
    \/ MainDetectRaises
    \/ MainDetectReturns
    \/ PlotParse
    \/ PlotRecord
    \/ TranslateReturns
    \/ TranslateRaises
    \/ PlotReturn
    \/ MainSave
    \/ MainExcept

BatchSteps ==
    \/ BatchEnter
    \/ BatchCallMain
    \/ BatchReturn

PdfSteps ==
    \/ PdfEnter
    \/ PdfPage
    \/ PdfSave

Next ==
    \/ CliStart
    \/ WebStart
    \/ Convert
    \/ BatchSteps
    \/ PageSteps
    \/ Assemble
    \/ PdfSteps

Spec == Init /\ [][Next]_vars

\* C6: when MODELSCOPE_API_KEY is absent, a run through either front-end does
\* no per-page work: no page is rasterized, qwen_utils.main is never called,
\* no request goes to the detection or the translation service, and the run
\* does not end as a success.
C6_NoWorkWithoutKey ==
    ~api_key =>
        /\ log.rasterized = 0
        /\ log.mains = <<>>
        /\ log.detect_requests = 0
        /\ log.translate_requests = 0
        /\ result \notin {Exited(0)}
        /\ result.kind = "return" => result.value.message # "ok"

\* the detection response yields no record: an empty array, or text that
\* no parsing step reads a record from
ZeroRecords(response) ==
    LET Empty(parsed) ==
            \/ parsed.via = "none"
            \/ parsed.boxes.t = "list" /\ parsed.boxes.v = <<>>
    IN Empty(ParseResponse(response))

\* the answers of the detection service, in a run, that yield no record
ZeroRecordResponses == {response \in Responses : ZeroRecords(response)}

\* the run has ended
Ended == pc \in {"returned", "exited", "raised"}

\* every page of the document went through main, and the detection response
\* of every page yielded no record
AllPagesZeroRecords ==
    /\ Len(log.mains) = args.n_pages
    /\ \A i \in 1..Len(log.mains) :
          /\ log.mains[i].detect = "returned"
          /\ log.mains[i].response \in ZeroRecordResponses

\* C13: a page whose detection response yields no record is no error: main
\* returns and the output it saved is the source page image, nothing drawn
\* on it; and a run on a document whose N pages all yield no record ends
\* well with a document of N pages, page i the image of source page i.
C13_ZeroRecordsKeepsPage ==
    /\ \A i \in 1..Len(log.mains) :
          (/\ log.mains[i].detect = "returned"
           /\ log.mains[i].response \in ZeroRecordResponses
           /\ log.mains[i].outcome # "running")
             => /\ log.mains[i].outcome = "returned"
                /\ log.mains[i].output \in DOMAIN files
                /\ files[log.mains[i].output] = files[log.mains[i].image_path]
    /\ (Ended /\ AllPagesZeroRecords) =>
          /\ result \in {Exited(0), Returned([message |-> "ok", pdf |-> pdf.out,
                                               images |-> pdf.paths])}
          /\ pdf.out \in DOMAIN files
          /\ Len(files[pdf.out].draws) = args.n_pages
          /\ \A n \in 1..args.n_pages :
                files[pdf.out].draws[n].image
                   = files[args.paths[n]]

\* a run on a document of MaxPages pages has ended; page 1 was answered with
\* an empty array and the last page with free text
C13_Witness ==
    /\ Ended
    /\ AllPagesZeroRecords
    /\ args.n_pages = MaxPages
    /\ log.mains[1].response = JsonDumps(VList(<<>>))
    /\ log.mains[MaxPages].response = <<"n", "o", " ", "t", "e", "x", "t">>
    /\ pdf.out \in DOMAIN files

\* the per-document directory: output_dir/pdf_name
DocumentDir == PathJoin(args.output_dir, args.pdf_name)

\* C17: whatever output_dir and pdf_name the batch is called with, every
\* annotated image is written to the per-document directory
\* output_dir/pdf_name and every path the batch collects lies in it; it is
\* the directory batch_process_images creates, and the one in which the
\* front-end writes the final document.
C17_OutputsInDocumentDir ==
    /\ \A i \in 1..Len(log.mains) :
          log.mains[i].outcome = "returned"
             => /\ log.mains[i].output \in DOMAIN files
                /\ Dirname(log.mains[i].output) = DocumentDir
    /\ \A i \in 1..Len(translated_paths) : Dirname(translated_paths[i]) = DocumentDir
    /\ image_paths # <<>> => DocumentDir \in dirs
    /\ pdf.out # <<>> => Dirname(pdf.out) = DocumentDir

(***************************************************************************)
(* SpecBatch: a direct call of batch_process_images on the page images of  *)
(* one document, given in any order                                        *)
(***************************************************************************)
\* the page numbers the documents of the batch and the assembly carry
PageNos == {1, 2, 10}

Range(seq) == {seq[i] : i \in 1..Len(seq)}

\* the sequences of at most n distinct elements of S
RECURSIVE Arrangements(_, _)
Arrangements(S, n) ==
    IF n = 0 THEN {<<>>}
    ELSE LET More(shorter) ==
                 shorter \cup UNION {{Append(q, x) : x \in S \ Range(q)} :
                                        q \in {r \in shorter : Len(r) = n - 1}}
         IN More(Arrangements(S, n - 1))

\* pdf_utils.convert_pdf_to_images, lines 50-65: the image of page n of the
\* document name, in the directory main.py and gradio_app.py pass
SourcePath(name, n) == PageImagePath(PathJoin(S_imgs, name), name, n, S_png)

\* the files the rasterizer has written for the pages ns of the document
SourceFiles(name, ns) ==
    [p \in {SourcePath(name, n) : n \in ns} |->
        PageImage(CHOOSE n \in ns : SourcePath(name, n) = p)]

\* the answers of the detection service in a batch: no record, one record,
\* and a valid record followed by one whose bbox_2d holds no numbers
BatchResponses ==
    {JsonDumps(VList(<<>>)), JsonDumps(VList(<<Rec_a>>)),
     JsonDumps(VList(<<Rec_a, Rec_strs>>))}

InitBatch ==
    /\ entry = "batch"
    /\ api_key \in BOOLEAN
    /\ font_ok = TRUE
    /\ \E name \in PdfNames, named \in BOOLEAN,
          pages \in Arrangements(PageNos, MaxPages) \ {<<>>} :
          /\ args = [NoArgs EXCEPT
                       !.pdf_name = IF named THEN name ELSE <<>>,
                       !.paths = [i \in 1..Len(pages) |-> SourcePath(name, pages[i])],
                       !.responses = BatchResponses]
          /\ files = SourceFiles(name, Range(pages))
    /\ pc = "batch_entry"
    /\ cur = NoFrame
    /\ pdf = NoPdf
    /\ Quiet

NextBatch ==
    \/ BatchSteps
    \/ PageSteps

SpecBatch == InitBatch /\ [][NextBatch]_vars

\* C1: a failure while annotating one page never aborts the batch: a call of
\* batch_process_images on N page images ends by returning, with exactly N
\* output paths, whichever detection calls raise.
C1_BatchReturnsAllPages ==
    (entry = "batch" /\ pc \in {"returned", "raised"}) =>
        /\ pc = "returned"
        /\ Len(result.value) = Len(args.paths)

\* C2: when the detection call raises for a page, qwen_utils.main does not
\* raise: it returns an output path whose file is a copy of the source page
\* image.
C2_MainCopiesOnDetectFailure ==
    \A i \in 1..Len(log.mains) :
        (log.mains[i].detect = "raised" /\ log.mains[i].outcome # "running") =>
            /\ log.mains[i].outcome = "returned"
            /\ log.mains[i].output \in DOMAIN files
            /\ files[log.mains[i].output] = files[log.mains[i].image_path]

\* main has saved the output of the page at hand, and the loop over the
\* page's records was left by an exception before its end
SavedAfterThrow ==
    /\ log.mains # <<>>
    /\ log.mains[Len(log.mains)].image_path = cur.image_path
    /\ log.mains[Len(log.mains)].outcome = "returned"
    /\ cur.k >= 1
    /\ cur.k <= Len(cur.items)

\* C15: a page's output is all or original: when processing the page threw
\* after records had been drawn, the output saved for the page is the source
\* image as it was, with none of the rectangles and texts drawn before.
C15_AllOrOriginal ==
    (entry = "batch" /\ SavedAfterThrow /\ cur.img.draws # <<>>) =>
        /\ files[log.mains[Len(log.mains)].output].draws = <<>>
        /\ files[log.mains[Len(log.mains)].output] = files[cur.image_path]

\* the page numbers of the images handed to the batch
PagesGiven == {files[args.paths[i]].page : i \in 1..Len(args.paths)}

\* C3: for the page images of one document as the rasterizer names them,
\* given in any order, whenever batch_process_images returns, the i-th path
\* it returns is the output made from the page with the i-th smallest page
\* number, for every i.
C3_ReturnedInPageOrder ==
    (entry = "batch" /\ pc = "returned") =>
        /\ Len(result.value) = Len(args.paths)
        /\ \A i \in 1..Len(result.value) :
              /\ result.value[i] \in DOMAIN files
              /\ result.value[i] \notin Range(args.paths)
              /\ files[result.value[i]].page = NthOf(PagesGiven, i)

\* page 10 given before page 2, and the call has returned
C3_Witness ==
    /\ entry = "batch"
    /\ pc = "returned"
    /\ Len(args.paths) >= 2
    /\ files[args.paths[1]].page = 10
    /\ files[args.paths[2]].page = 2
    /\ files[result.value[1]].page = 2

(***************************************************************************)
(* SpecNames: a direct call of batch_process_images on image files of one  *)
(* directory whose names are not the rasterizer's                          *)
(***************************************************************************)
\* a.png and a_b.png; p_1.png and p_01.png, whose keys are equal
ImageNames ==
    << <<"a", ".", "p", "n", "g">>, <<"a", "_", "b", ".", "p", "n", "g">>,
       <<"p", "_", "1", ".", "p", "n", "g">>, <<"p", "_", "0", "1", ".", "p", "n", "g">> >>

NamedPath(k) == PathJoin(PathJoin(S_imgs, <<"d">>), ImageNames[k])

InitNames ==
    /\ entry = "batch"
    /\ api_key \in BOOLEAN
    /\ font_ok = TRUE
    /\ \E named \in BOOLEAN, ks \in Arrangements(DOMAIN ImageNames, MaxPages) \ {<<>>} :
          /\ args = [NoArgs EXCEPT
                       !.pdf_name = IF named THEN <<"d">> ELSE <<>>,
                       !.paths = [i \in 1..Len(ks) |-> NamedPath(ks[i])],
                       !.responses = BatchResponses]
          /\ files = [p \in {NamedPath(k) : k \in Range(ks)} |->
                         PageImage(CHOOSE k \in Range(ks) : NamedPath(k) = p)]
    /\ pc = "batch_entry"
    /\ cur = NoFrame
    /\ pdf = NoPdf
    /\ Quiet

NextNames ==
    \/ BatchSteps
    \/ PageSteps

SpecNames == InitNames /\ [][NextNames]_vars

\* the orderings of the paths of the list paths
Reorderings(paths) ==
    {q \in Arrangements(Range(paths), Len(paths)) : Len(q) = Len(paths)}

\* batch_process_images(paths, pdf_name) when every call of main returns: the
\* pages in the order main is called on them, and the list returned
BatchOrder(paths) == SortedByKey(paths)

BatchResult(paths, pdf_name) ==
    SortedByKey([i \in 1..Len(paths) |-> OutputPath(BatchOrder(paths)[i], pdf_name)])

\* the pages main has been called on, in the order of the calls
Called == [i \in 1..Len(log.mains) |-> log.mains[i].image_path]

\* C16: the order of processing depends on the set of image paths only: for
\* every other ordering of the paths given, batch_process_images would call
\* main on the pages in the same sequence as this run does, and return the
\* same list as this run returns.
C16_OrderIsFunctionOfSet ==
    (entry = "batch" /\ pc # "batch_entry") =>
        \A q \in Reorderings(args.paths) :
           /\ Called = SubSeq(BatchOrder(q), 1, Len(Called))
           /\ pc = "returned" => result.value = BatchResult(q, args.pdf_name)

\* C18: naming the outputs (base name, "_translated", extension) keeps the
\* Natural Order Key order of the inputs: two inputs of which one sorts
\* before the other have outputs that sort the same way, so that the i-th
\* path returned is the output of the i-th page processed.
C18_NamingKeepsOrder ==
    (entry = "batch" /\ pc = "returned") =>
        /\ \A i, j \in 1..Len(args.paths) :
              KeyLess(args.paths[i], args.paths[j])
                 => KeyLess(OutputPath(args.paths[i], args.pdf_name),
                            OutputPath(args.paths[j], args.pdf_name))
        /\ \A i \in 1..Len(result.value) :
              /\ result.value[i] = OutputPath(image_paths[i], args.pdf_name)
              /\ files[result.value[i]].page = files[image_paths[i]].page

(***************************************************************************)
(* SpecPlot: a direct call of plot_text_bounding_boxes on one page image   *)
(***************************************************************************)
\* records the loop of lines 167-199 may meet besides the valid ones: no
\* bbox_2d, a bbox_2d that is no list, one of 3, one of 5 and one of 4
\* components that are no numbers
Rec_nobox == VDict(<< <<K_text_content, VStr(<<"c">>)>> >>)

Rec_notlist == VDict(<< <<K_bbox_2d, VInt(7)>>, <<K_text_content, VStr(<<"c">>)>> >>)

Rec_short == Record(<<10, 20, 100>>, <<"c">>)

Rec_long == Record(<<10, 20, 100, 60, 7>>, <<"c">>)

Malformed == {Rec_nobox, Rec_notlist, Rec_short, Rec_long, Rec_strs}

\* the two valid records with the record m at place k of the list
Placed(m, k) ==
    CASE k = 1 -> <<m, Rec_a, Rec_b>>
      [] k = 2 -> <<Rec_a, m, Rec_b>>
      [] OTHER -> <<Rec_a, Rec_b, m>>

\* a response json.loads rejects and ast.literal_eval accepts: a comma before
\* the bracket that closes bbox_2d
TrailingComma ==
    <<"[", "{">> \o Quote \o K_bbox_2d \o Quote
        \o <<":", " ", "[", "1", "0", ",", " ", "2", "0", ",", " ", "1", "0", "0", ",",
             " ", "6", "0", ",", "]", ",", " ">>
        \o Quote \o K_text_content \o Quote \o <<":", " ">> \o Quote \o <<"a">> \o Quote
        \o <<"}", "]">>

\* the response text between a fence opener line and a fence closer
Wrap(payload) == FenceJson \o <<"\n">> \o payload \o <<"\n">> \o Fence

PlotResponses ==
    Responses
        \cup {JsonDumps(VList(Placed(m, k))) : m \in Malformed, k \in 1..3}
        \cup {TrailingComma, Wrap(JsonDumps(VList(<<Rec_a>>)))}

InitPlot ==
    /\ entry = "plot"
    /\ api_key \in BOOLEAN
    /\ font_ok \in BOOLEAN
    /\ \E n \in {1, 2}, response \in PlotResponses :
          /\ files = SourceFiles(<<"d">>, {n})
          /\ cur = [NoFrame EXCEPT
                      !.image_path = SourcePath(<<"d">>, n),
                      !.response = response,
                      \* input_height, input_width as main computes them
                      !.input = smart_resize(PageSizeOf(n)[2], PageSizeOf(n)[1],
                                             min_pixels, max_pixels)]
    /\ args = NoArgs
    /\ pc = "plot_entry"
    /\ pdf = NoPdf
    /\ Quiet

NextPlot ==
    \/ PlotParse
    \/ PlotRecord
    \/ TranslateReturns
    \/ TranslateRaises
    \/ PlotReturn

SpecPlot == InitPlot /\ [][NextPlot]_vars

\* the rectangle line 188 draws for record j of the list
RectAt(j) == RectOf(cur.items[j], cur.img.size, cur.input[2], cur.input[1])

RectDrawn(j) ==
    \E d \in 1..Len(cur.img.draws) :
        cur.img.draws[d] = [op |-> "rect", at |-> RectAt(j), text |-> <<>>]

\* a record as the specification defines a valid one: a dict whose bbox_2d is
\* a list of exactly 4 numbers
WellFormed(b) ==
    /\ b.t = "dict"
    /\ DictHas(b.v, K_bbox_2d)
    /\ DictGet(b.v, K_bbox_2d).t = "list"
    /\ Len(DictGet(b.v, K_bbox_2d).v) = 4
    /\ \A i \in 1..4 : DictGet(b.v, K_bbox_2d).v[i].t = "int"

\* the number of records the call has drawn a box for
Processed == Cardinality({d \in 1..Len(cur.img.draws) : cur.img.draws[d].op = "rect"})

\* C9: once a record list exists, each record is validated on its own: a
\* record whose bbox_2d is absent, is no list or has not exactly 4 numeric
\* components is skipped without an exception, and every well-formed record
\* of the list is processed, so the call ends with as many processed records
\* as the list has well-formed ones (2 of 3, wherever the malformed one sits).
C9_RecordsIndependent ==
    (entry = "plot" /\ pc = "returned" /\ cur.k >= 1) =>
        /\ Processed = Cardinality({j \in 1..Len(cur.items) : WellFormed(cur.items[j])})
        /\ \A j \in 1..Len(cur.items) : WellFormed(cur.items[j]) => RectDrawn(j)

TranslatedPath(name, n) == OutputPath(SourcePath(name, n), name)

InitPdf ==
    /\ entry = "pdf"
    /\ api_key = TRUE
    /\ font_ok = TRUE
    /\ \E name \in PdfNames, sized \in BOOLEAN, present \in SUBSET PageNos,
          pages \in Arrangements(PageNos, MaxPages) \ {<<>>} :
          /\ present \subseteq Range(pages)
          /\ args = [NoArgs EXCEPT !.pdf_name = name,
                                   !.page_size = IF sized THEN A4 ELSE <<>>]
          /\ files = [p \in {TranslatedPath(name, n) : n \in present} |->
                         PageImage(CHOOSE n \in present : TranslatedPath(name, n) = p)]
          /\ pdf = [NoPdf EXCEPT
                      !.out = PathJoin(PathJoin(S_outputs, name),
                                       name \o S_translated \o S_dot_pdf),
                      !.paths = [i \in 1..Len(pages) |-> TranslatedPath(name, pages[i])]]
    /\ pc = "pdf_entry"
    /\ cur = NoFrame
    /\ Quiet

NextPdf == PdfSteps

SpecPdf == InitPdf /\ [][NextPdf]_vars

\* C5: images_to_pdf, called without a page_size on a list of which any
\* paths (the first in natural order included) are missing on disk, ends
\* without raising: the document it writes has a page for every path that
\* exists and none for a missing one.
C5_AssemblySkipsMissing ==
    (entry = "pdf" /\ args.page_size = <<>> /\ pc \in {"returned", "raised"}) =>
        /\ pc = "returned"
        /\ pdf.out \in DOMAIN files
        /\ {files[pdf.out].draws[i].path : i \in 1..Len(files[pdf.out].draws)}
              = {q \in Range(pdf.paths) : q \in DOMAIN files}
        /\ Len(files[pdf.out].draws)
              = Cardinality({q \in Range(pdf.paths) : q \in DOMAIN files})

\* the paths given to images_to_pdf that exist on disk, in Natural Order Key
\* order
ExistingSorted == SelectSeq(SortedByKey(pdf.paths), LAMBDA q : q \in DOMAIN files)

\* C12: images_to_pdf, given at least one image that exists, writes a
\* document with exactly one page per existing image and no other page, the
\* pages in Natural Order Key order of the paths whatever the order they were
\* given in; without a page_size each page has the pixel size of its image.
C12_OnePagePerExistingImage ==
    (entry = "pdf" /\ pc \in {"returned", "raised"} /\ ExistingSorted # <<>>) =>
        /\ pc = "returned"
        /\ pdf.out \in DOMAIN files
        /\ [i \in 1..Len(files[pdf.out].draws) |-> files[pdf.out].draws[i].path]
              = ExistingSorted
        /\ args.page_size = <<>> =>
              \A i \in 1..Len(files[pdf.out].draws) :
                 files[pdf.out].draws[i].size = files[ExistingSorted[i]].size

(***************************************************************************)
(* SpecKey: sorted(names, key=natural_sort_key) on file names that differ  *)
(* in one digit run                                                        *)
(***************************************************************************)
S_stem == <<"p", "a", "g", "e", "_">>

DigitRuns == {<<"1">>, <<"2">>, <<"1", "0">>, <<"0", "2">>}

Suffixes == {<<>>, <<".", "p", "n", "g">>}

\* a file name: a stem, a digit run and a suffix
FileNames == [digits : DigitRuns, suffix : Suffixes]

Render(f) == S_stem \o f.digits \o f.suffix

InitKey ==
    /\ entry = "key"
    /\ api_key = TRUE
    /\ font_ok = TRUE
    /\ \E names \in Arrangements(FileNames, MaxNames) \ {<<>>} :
          args = [NoArgs EXCEPT !.names = names,
                                !.paths = [i \in 1..Len(names) |-> Render(names[i])]]
    /\ pc = "sort_entry"
    /\ Idle

\* sorted(paths, key=natural_sort_key)
SortNames ==
    /\ pc = "sort_entry"
    /\ result' = Returned(SortedByKey(args.paths))
    /\ pc' = "returned"
    /\ UNCHANGED <<entry, api_key, font_ok, args, files, dirs, image_paths, idx,
                   translated_paths, cur, pdf, log>>

NextKey == SortNames

SpecKey == InitKey /\ [][NextKey]_vars

\* the name of the input that is written as the path p
NameOf(p) == CHOOSE f \in Range(args.names) : Render(f) = p

\* C4: two file names that are the same but for one digit run, whose integer
\* values differ, are ordered by that integer value and not as text: in the
\* sorted list the one of the smaller value comes first, and page_2, page_10,
\* page_1 come out as page_1, page_2, page_10.
C4_SortedByDigitRunValue ==
    (entry = "key" /\ pc = "returned") =>
        /\ Len(result.value) = Len(args.paths)
        /\ Range(result.value) = Range(args.paths)
        /\ \A i, j \in 1..Len(result.value) :
              (/\ i < j
               /\ NameOf(result.value[i]).suffix = NameOf(result.value[j]).suffix
               /\ IntOf(NameOf(result.value[i]).digits)
                     # IntOf(NameOf(result.value[j]).digits))
                 => IntOf(NameOf(result.value[i]).digits)
                       < IntOf(NameOf(result.value[j]).digits)

\* page_2, page_10, page_1 were given and page_1, page_2, page_10 came out
C4_Witness ==
    /\ entry = "key"
    /\ pc = "returned"
    /\ args.paths = <<S_stem \o <<"2">>, S_stem \o <<"1", "0">>, S_stem \o <<"1">> >>
    /\ result.value = <<S_stem \o <<"1">>, S_stem \o <<"2">>, S_stem \o <<"1", "0">> >>

(***************************************************************************)
(* SpecParse: the parsing steps of plot_text_bounding_boxes on a payload,  *)
(* as it is and between a fence opener line and a fence closer             *)
(***************************************************************************)
Texts == {<<"a">>, <<"b", ":", "=", "c">>, Fence}

Boxes == {<<10, 20, 100, 60>>, <<200, 160, 120, 80>>}

\* the lists of at most MaxRecords valid records
RecordLists ==
    UNION {[1..n -> {Record(box, text) : box \in Boxes, text \in Texts}] :
              n \in 0..MaxRecords}

\* a Python literal that json.loads rejects and in which the scan finds no
\* match: the record's text_content is written before its bbox_2d, and a
\* comma closes the list
TextFirstComma ==
    <<"[">> \o JsonDumps(VDict(<< <<K_text_content, VStr(<<"a">>)>>,
                                  <<K_bbox_2d, VList(<<VInt(10), VInt(20), VInt(100),
                                                       VInt(60)>>)>> >>))
           \o <<",", "]">>

\* payloads that are no serialized list of valid records: free text, the
\* comma before a closing bracket, a payload that is fenced itself, and the
\* literal without a match
OtherPayloads ==
    {<<"n", "o", " ", "t", "e", "x", "t">>, TrailingComma,
     Wrap(JsonDumps(VList(<<Rec_a>>))), TextFirstComma}

InitParse ==
    /\ entry = "parse"
    /\ api_key = TRUE
    /\ font_ok = TRUE
    /\ \/ \E records \in RecordLists :
             args = [NoArgs EXCEPT !.records = VList(records),
                                   !.payload = JsonDumps(VList(records))]
       \/ \E payload \in OtherPayloads : args = [NoArgs EXCEPT !.payload = payload]
    /\ pc = "parse_entry"
    /\ Idle

\* lines 120-164 on the payload as it is
ParsePlain ==
    /\ pc = "parse_entry"
    /\ result' = Returned([plain |-> ParseResponse(args.payload),
                           fenced |-> [via |-> "", boxes |-> NoVal]])
    /\ pc' = "parse_fenced"
    /\ UNCHANGED <<entry, api_key, font_ok, args, files, dirs, image_paths, idx,
                   translated_paths, cur, pdf, log>>

\* lines 120-164 on the fenced payload
ParseFenced ==
    /\ pc = "parse_fenced"
    /\ result' = Returned([result.value EXCEPT
                             !.fenced = ParseResponse(Wrap(args.payload))])
    /\ pc' = "returned"
    /\ UNCHANGED <<entry, api_key, font_ok, args, files, dirs, image_paths, idx,
                   translated_paths, cur, pdf, log>>

NextParse ==
    \/ ParsePlain
    \/ ParseFenced

SpecParse == InitParse /\ [][NextParse]_vars

\* C7: the JSON serialization of a list of N valid records (a bbox_2d of 4
\* numbers and any string text_content) is parsed into exactly N records
\* whose bbox_2d and text_content equal the originals.
C7_RoundTrip ==
    (entry = "parse" /\ pc # "parse_entry" /\ args.records # NoVal) =>
        /\ result.value.plain.boxes.t = "list"
        /\ Len(result.value.plain.boxes.v) = Len(args.records.v)
        /\ result.value.plain.boxes = args.records

\* C8: for every payload, the response made of a fence opener line, the
\* payload and a fence closer parses to the same record list as the payload
\* alone.
C8_FenceTransparent ==
    (entry = "parse" /\ pc = "returned") =>
        result.value.fenced.boxes = result.value.plain.boxes

\* C14: the parser tries strict JSON parsing, then the regular-expression
\* scan, then literal evaluation, each exactly when the earlier ones yielded
\* no result: valid JSON is the result of JSON parsing; a payload that is no
\* valid JSON and holds a match of the scan whose numbers convert is the
\* result of the scan; a payload that is no valid JSON and holds no match
\* goes to literal evaluation, and when it is a valid literal that value is
\* the result.
C14_StrategiesInOrder ==
    (entry = "parse" /\ pc # "parse_entry") =>
        LET InOrder(got, js, matches, rx, lit) ==
                /\ js.ok => (got.via = "json" /\ got.boxes = js.val)
                /\ (~js.ok /\ matches # <<>> /\ rx.ok)
                      => (got.via = "regex" /\ got.boxes = rx.boxes)
                /\ (~js.ok /\ matches = <<>> /\ lit.ok)
                      => (got.via = "literal" /\ got.boxes = lit.val)
            Cleaned(clean) ==
                InOrder(result.value.plain, json_loads(clean), re_findall(clean),
                        RegexBoxes(clean), literal_eval(clean))
        IN Cleaned(CleanPayload(args.payload))

(***************************************************************************)
(* SpecResize: smart_resize on the sizes of images, within the program's   *)
(* pixel limits and within smaller ones                                    *)
(***************************************************************************)
Sides == {1, 17, 25, 150, 300, 400, 600, 800, 1200}

PixelLimits == {<<1, 9>>, <<4, 36>>, <<min_pixels, max_pixels>>}

InitResize ==
    /\ entry = "resize"
    /\ api_key = TRUE
    /\ font_ok = TRUE
    /\ \E height \in Sides, width \in Sides, limits \in PixelLimits :
          args = [NoArgs EXCEPT !.height = height, !.width = width,
                                !.min_pixels = limits[1], !.max_pixels = limits[2]]
    /\ pc = "resize_entry"
    /\ Idle

\* smart_resize(height, width, min_pixels, max_pixels)
Resize ==
    /\ pc = "resize_entry"
    /\ result' = Returned(smart_resize(args.height, args.width, args.min_pixels,
                                       args.max_pixels))
    /\ pc' = "returned"
    /\ UNCHANGED <<entry, api_key, font_ok, args, files, dirs, image_paths, idx,
                   translated_paths, cur, pdf, log>>

NextResize == Resize

SpecResize == InitResize /\ [][NextResize]_vars

\* floor(side * sqrt(bound / (side * other))), which is
\* floor(sqrt(side * bound / other))
FloorScaled(side, other, bound) == Isqrt((side * bound) \div other)

\* C11: with 0 < min_pixels <= max_pixels, smart_resize returns (h, w) as
\* they are when min_pixels <= h*w <= max_pixels, and otherwise
\* (floor(h*s), floor(w*s)) with s the square root of min_pixels / (h*w) when
\* h*w is below min_pixels and of max_pixels / (h*w) when it is above
\* max_pixels.
C11_ResizeIsFloorOfScaled ==
    (entry = "resize" /\ pc = "returned") =>
        LET Expected(h, w, lo, hi) ==
                IF lo <= h * w /\ h * w <= hi THEN <<h, w>>
                ELSE IF h * w < lo THEN <<FloorScaled(h, w, lo), FloorScaled(w, h, lo)>>
                ELSE <<FloorScaled(h, w, hi), FloorScaled(w, h, hi)>>
        IN result.value = Expected(args.height, args.width, args.min_pixels,
                                   args.max_pixels)
====
